---- MODULE Spec2Model ----
(***************************************************************************)
(* Continuous-occupancy duration reconstruction of the parking dashboards. *)
(* The observation table (the pandas DataFrame df) is a sequence of rows;  *)
(* calculate_duration scans the distinct timestamps of the whole table     *)
(* backward from the query timestamp.                                      *)
(*                                                                         *)
(* Cell values of the two nullable text columns are sequences of one-      *)
(* character strings; NaN is the missing value of pandas.  Timestamps are  *)
(* integers (seconds), a timedelta is their difference.                    *)
(***************************************************************************)
EXTENDS Integers, Sequences, FiniteSets, TLC

\* ------------------------------------------------------------------ bounds
MaxRows == 3
MaxT == 3
MaxHistT == 5
MaxCalls == 2
MaxSeconds == 363661
MaxDashRows == 3
MaxDashT == 2
MaxLoops == 2

\* ------------------------------------------------------------- input sets
NaN == <<"NaN">>
Blank == <<" ">>
Xs == {0, 1}
Ys == {0}
Times == 1..MaxT
Plates == {NaN, Blank, <<"A">>, <<"B">>}

\* the (reservation_id, plate_number) pairs a sheet row may carry: a parked car
\* A or B, an empty spot, a row without reservation that still names a plate,
\* and a reservation whose plate is blank or missing
Cells == {<<<<"R">>, <<"A">>>>, <<<<"R">>, <<"B">>>>, <<NaN, NaN>>,
          <<Blank, <<"A">>>>, <<<<"R">>, Blank>>, <<<<"R">>, NaN>>}

SheetRows ==
    {[x |-> x, y |-> y, current_time |-> t,
      reservation_id |-> c[1], plate_number |-> c[2]] :
        x \in Xs, y \in Ys, t \in Times, c \in Cells}

\* the sheets of n rows
Sheets(n) == [1..n -> SheetRows]

\* -------------------------------------------------------------- load_data
\* pd.isna / pd.notna on a scalar cell
isna(v) == v = NaN

notna(v) == ~isna(v)

\* str.strip(): drop leading and trailing whitespace characters
RECURSIVE lstrip(_)
lstrip(s) ==
    IF s # <<>> /\ Head(s) = " " THEN lstrip(Tail(s)) ELSE s

RECURSIVE rstrip(_)
rstrip(s) ==
    IF s # <<>> /\ s[Len(s)] = " " THEN rstrip(SubSeq(s, 1, Len(s) - 1)) ELSE s

strip(s) == rstrip(lstrip(s))

\* variant: the lambda without its str(x).strip() != '' test
status_of_no_strip(v) ==
    IF notna(v) THEN "occupied" ELSE "vacant"

\* the lambda applied to the reservation_id column
status_of(v) ==
    IF notna(v) /\ strip(v) # <<>> THEN "occupied" ELSE "vacant"

load_data(sheet) ==
    [i \in DOMAIN sheet |->
        [x |-> sheet[i].x, y |-> sheet[i].y,
         current_time |-> sheet[i].current_time,
         reservation_id |-> sheet[i].reservation_id,
         plate_number |-> sheet[i].plate_number,
         status |-> status_of(sheet[i].reservation_id)]]

\* ----------------------------------------------------- calculate_duration
None == -1

\* df['current_time'].unique()
unique_times(d) == {d[i].current_time : i \in DOMAIN d}

\* variant: the sort without reverse=True
RECURSIVE sorted_asc(_)
sorted_asc(S) ==
    IF S = {} THEN <<>>
    ELSE LET m == CHOOSE a \in S : \A b \in S : a <= b
         IN  <<m>> \o sorted_asc(S \ {m})

\* sorted(S, reverse=True)
RECURSIVE sorted_desc(_)
sorted_desc(S) ==
    IF S = {} THEN <<>>
    ELSE LET m == CHOOSE a \in S : \A b \in S : b <= a
         IN  <<m>> \o sorted_desc(S \ {m})

\* variant: the comprehension without its "if ts <= current_timestamp"
all_timestamps_unfiltered(d, current_timestamp) ==
    sorted_desc(unique_times(d))

\* sorted([ts for ts in df['current_time'].unique() if ts <= current_timestamp], reverse=True)
all_timestamps(d, current_timestamp) ==
    sorted_desc({ts \in unique_times(d) : ts <= current_timestamp})

\* variant: the row mask without its (df['x'] == spot_x) term
IsSpotAtTime_any_x(r, spot_x, spot_y, timestamp) ==
    r.y = spot_y /\ r.current_time = timestamp

IsSpotAtTime(r, spot_x, spot_y, timestamp) ==
    r.x = spot_x /\ r.y = spot_y /\ r.current_time = timestamp

\* df[(df['x'] == spot_x) & (df['y'] == spot_y) & (df['current_time'] == timestamp)]
spot_at_time(d, spot_x, spot_y, timestamp) ==
    SelectSeq(d, LAMBDA r : IsSpotAtTime(r, spot_x, spot_y, timestamp))

\* == on two cell values: NaN equals nothing, itself included
py_eq(a, b) == ~isna(a) /\ ~isna(b) /\ a = b

\* variant: the last of the selected rows, iloc[-1]
iloc_last(rows) == rows[Len(rows)]

\* spot_at_time.iloc[0]
iloc0(rows) == rows[1]

\* variant: the test without its plate comparison
RowMatches_status_only(spot_status, plate_number) ==
    spot_status.status = "occupied"

\* variant: a plate test that ignores the status column
RowMatches_plate_only(spot_status, plate_number) ==
    py_eq(spot_status.plate_number, plate_number)

\* the test that extends the run
RowMatches(spot_status, plate_number) ==
    spot_status.status = "occupied" /\ py_eq(spot_status.plate_number, plate_number)

\* variant: the loop breaking at every non-matching or missing observation, whether
\* or not a run was found
RECURSIVE scan_break_always(_, _, _, _, _, _, _, _)
scan_break_always(d, spot_x, spot_y, plate_number, ats, i, first_arrival, n) ==
    IF i > Len(ats) THEN [first_arrival |-> first_arrival, iterations |-> n]
    ELSE
      LET rows == spot_at_time(d, spot_x, spot_y, ats[i]) IN
      IF Len(rows) = 0 THEN [first_arrival |-> first_arrival, iterations |-> n + 1]
      ELSE IF RowMatches(iloc0(rows), plate_number) THEN
         scan_break_always(d, spot_x, spot_y, plate_number, ats, i + 1, ats[i], n + 1)
      ELSE [first_arrival |-> first_arrival, iterations |-> n + 1]

\* variant: the loop without its break statements
RECURSIVE scan_no_break(_, _, _, _, _, _, _, _)
scan_no_break(d, spot_x, spot_y, plate_number, ats, i, first_arrival, n) ==
    IF i > Len(ats) THEN [first_arrival |-> first_arrival, iterations |-> n]
    ELSE
      LET rows == spot_at_time(d, spot_x, spot_y, ats[i]) IN
      IF Len(rows) # 0 /\ RowMatches(iloc0(rows), plate_number) THEN
         scan_no_break(d, spot_x, spot_y, plate_number, ats, i + 1, ats[i], n + 1)
      ELSE
         scan_no_break(d, spot_x, spot_y, plate_number, ats, i + 1, first_arrival, n + 1)

\* the for loop over all_timestamps, from position i with the loop state
\* (first_arrival, number of iterations performed so far)
RECURSIVE scan(_, _, _, _, _, _, _, _)
scan(d, spot_x, spot_y, plate_number, ats, i, first_arrival, n) ==
    IF i > Len(ats) THEN [first_arrival |-> first_arrival, iterations |-> n]
    ELSE
      LET rows == spot_at_time(d, spot_x, spot_y, ats[i]) IN
      IF Len(rows) = 0 THEN
         IF first_arrival # None
         THEN [first_arrival |-> first_arrival, iterations |-> n + 1]
         ELSE scan(d, spot_x, spot_y, plate_number, ats, i + 1, first_arrival, n + 1)
      ELSE IF RowMatches(iloc0(rows), plate_number) THEN
         scan(d, spot_x, spot_y, plate_number, ats, i + 1, ats[i], n + 1)
      ELSE
         IF first_arrival # None
         THEN [first_arrival |-> first_arrival, iterations |-> n + 1]
         ELSE scan(d, spot_x, spot_y, plate_number, ats, i + 1, first_arrival, n + 1)

\* the whole function: its return value (duration) with the loop's final
\* first_arrival and the number of loop iterations it performed
calculate_duration(d, spot_x, spot_y, plate_number, current_timestamp) ==
    IF isna(plate_number)
    THEN [duration |-> 0, first_arrival |-> None, iterations |-> 0]
    ELSE
      LET s == scan(d, spot_x, spot_y, plate_number,
                    all_timestamps(d, current_timestamp), 1, None, 0)
      IN  [duration |-> IF s.first_arrival = None THEN 0
                        ELSE current_timestamp - s.first_arrival,
           first_arrival |-> s.first_arrival,
           iterations |-> s.iterations]

\* ------------------------------------------- the other copies of the function
\* create_interactive_dashboard.py: the for loop
RECURSIVE scan_interactive(_, _, _, _, _, _, _)
scan_interactive(d, spot_x, spot_y, plate_number, ats, i, first_arrival) ==
    IF i > Len(ats) THEN first_arrival
    ELSE
      LET spot_at == spot_at_time(d, spot_x, spot_y, ats[i]) IN
      IF Len(spot_at) = 0 THEN
         IF first_arrival # None THEN first_arrival
         ELSE scan_interactive(d, spot_x, spot_y, plate_number, ats, i + 1, first_arrival)
      ELSE IF RowMatches(iloc0(spot_at), plate_number) THEN
         scan_interactive(d, spot_x, spot_y, plate_number, ats, i + 1, ats[i])
      ELSE
         IF first_arrival # None THEN first_arrival
         ELSE scan_interactive(d, spot_x, spot_y, plate_number, ats, i + 1, first_arrival)

\* create_interactive_dashboard.py: calculate_duration
calculate_duration_interactive(d, spot_x, spot_y, plate_number, current_timestamp) ==
    IF isna(plate_number) THEN 0
    ELSE
      LET ats == sorted_desc({ts \in unique_times(d) : ts <= current_timestamp})
          first_arrival == scan_interactive(d, spot_x, spot_y, plate_number, ats, 1, None)
      IN  IF first_arrival = None THEN 0 ELSE current_timestamp - first_arrival

\* streamlit_app.py: the for loop (df is the module's table)
RECURSIVE scan_streamlit(_, _, _, _, _, _, _)
scan_streamlit(d, spot_x, spot_y, plate_number, ats, i, first_arrival) ==
    IF i > Len(ats) THEN first_arrival
    ELSE
      LET spot_at == spot_at_time(d, spot_x, spot_y, ats[i]) IN
      IF Len(spot_at) = 0 THEN
         IF first_arrival # None THEN first_arrival
         ELSE scan_streamlit(d, spot_x, spot_y, plate_number, ats, i + 1, first_arrival)
      ELSE IF RowMatches(iloc0(spot_at), plate_number) THEN
         scan_streamlit(d, spot_x, spot_y, plate_number, ats, i + 1, ats[i])
      ELSE
         IF first_arrival # None THEN first_arrival
         ELSE scan_streamlit(d, spot_x, spot_y, plate_number, ats, i + 1, first_arrival)

\* streamlit_app.py: calculate_duration
calculate_duration_streamlit(d, spot_x, spot_y, plate_number, current_timestamp) ==
    IF isna(plate_number) THEN 0
    ELSE
      LET ats == sorted_desc({ts \in unique_times(d) : ts <= current_timestamp})
          first_arrival == scan_streamlit(d, spot_x, spot_y, plate_number, ats, 1, None)
      IN  IF first_arrival = None THEN 0
          ELSE LET duration == current_timestamp - first_arrival IN duration

\* test_dashboard_output.py: the for loop of the "simplified version"
RECURSIVE scan_test(_, _, _, _, _, _, _)
scan_test(d, spot_x, spot_y, plate_number, ats, i, first_arrival) ==
    IF i > Len(ats) THEN first_arrival
    ELSE
      LET spot_at == spot_at_time(d, spot_x, spot_y, ats[i]) IN
      IF Len(spot_at) = 0 THEN
         IF first_arrival # None THEN first_arrival
         ELSE scan_test(d, spot_x, spot_y, plate_number, ats, i + 1, first_arrival)
      ELSE IF RowMatches(iloc0(spot_at), plate_number) THEN
         scan_test(d, spot_x, spot_y, plate_number, ats, i + 1, ats[i])
      ELSE
         IF first_arrival # None THEN first_arrival
         ELSE scan_test(d, spot_x, spot_y, plate_number, ats, i + 1, first_arrival)

\* variant: the simplified version with "ts < current_timestamp" in its comprehension
calculate_duration_test_strict(d, spot_x, spot_y, plate_number, current_timestamp) ==
    IF isna(plate_number) THEN 0
    ELSE
      LET ats == sorted_desc({ts \in unique_times(d) : ts < current_timestamp})
          first_arrival == scan_test(d, spot_x, spot_y, plate_number, ats, 1, None)
      IN  IF first_arrival = None THEN 0 ELSE current_timestamp - first_arrival

\* test_dashboard_output.py: calculate_duration
calculate_duration_test(d, spot_x, spot_y, plate_number, current_timestamp) ==
    IF isna(plate_number) THEN 0
    ELSE
      LET ats == sorted_desc({ts \in unique_times(d) : ts <= current_timestamp})
          first_arrival == scan_test(d, spot_x, spot_y, plate_number, ats, 1, None)
      IN  IF first_arrival = None THEN 0 ELSE current_timestamp - first_arrival

\* ------------------------------------------------------------ state machine
\* df: the table the functions read; loaded: the table as load_data returned it;
\* call, ret: the arguments and the result of the latest calculate_duration call;
\* ncalls: the number of calls made so far; fmt: the latest HH:MM:SS formatting;
\* dash: the spot numbering and the status tables a dashboard script built;
\* page: the generated HTML page running in a browser
VARIABLES df, loaded, call, ret, ncalls, fmt, dash, page

vars == <<df, loaded, call, ret, ncalls, fmt, dash, page>>

NoCall == [made |-> FALSE]
NoRet == [duration |-> 0, first_arrival |-> None, iterations |-> 0]
NoFmt == [done |-> FALSE]
NoDash == [built |-> FALSE]
NoPage == [open |-> FALSE]

\* nothing formatted, no dashboard built, no page open
NothingRendered == fmt = NoFmt /\ dash = NoDash /\ page = NoPage

Init ==
    /\ \E n \in 0..MaxRows : \E sheet \in Sheets(n) : df = load_data(sheet)
    /\ loaded = df
    /\ call = NoCall
    /\ ret = NoRet
    /\ ncalls = 0
    /\ NothingRendered

\* calculate_duration called by `by` and returning: it reads df and assigns nothing
\* outside its locals
Call(by, spot_x, spot_y, plate_number, current_timestamp) ==
    /\ call' = [made |-> TRUE, by |-> by, x |-> spot_x, y |-> spot_y,
                plate |-> plate_number, ts |-> current_timestamp]
    /\ ret' = calculate_duration(df, spot_x, spot_y, plate_number, current_timestamp)
    /\ ncalls' = ncalls + 1
    /\ UNCHANGED <<df, loaded, fmt, dash, page>>

\* one call of calculate_duration on the loaded table, with any arguments
Query(spot_x, spot_y, plate_number, current_timestamp) ==
    /\ ~call.made
    /\ Call("direct", spot_x, spot_y, plate_number, current_timestamp)

\* df[['x', 'y']].drop_duplicates(): the spots of the whole dataset
unique_spots(d) == {<<d[i].x, d[i].y>> : i \in DOMAIN d}

\* df['current_time'].max()
latest_timestamp(d) ==
    CHOOSE a \in unique_times(d) : \A b \in unique_times(d) : b <= a

\* variant: the table loop without its "if spot_row['status'] == 'occupied'"
TableCall_any_status(by, spot_x, spot_y, timestamp) ==
    LET spot_info == spot_at_time(df, spot_x, spot_y, timestamp) IN
    /\ ~call.made
    /\ <<spot_x, spot_y>> \in unique_spots(df)
    /\ Len(spot_info) > 0
    /\ Call(by, spot_x, spot_y, iloc0(spot_info).plate_number, timestamp)

\* the body of the table loop for one spot at the displayed timestamp: the call is
\* made for a spot whose first row at that timestamp is occupied, with that row's plate
TableCall(by, spot_x, spot_y, timestamp) ==
    LET spot_info == spot_at_time(df, spot_x, spot_y, timestamp) IN
    /\ ~call.made
    /\ <<spot_x, spot_y>> \in unique_spots(df)
    /\ Len(spot_info) > 0
    /\ iloc0(spot_info).status = "occupied"
    /\ Call(by, spot_x, spot_y, iloc0(spot_info).plate_number, timestamp)

\* create_dashboard and the Streamlit page: the table of the latest timestamp
DashboardCall(spot_x, spot_y) ==
    /\ df # <<>>
    /\ TableCall("create_dashboard", spot_x, spot_y, latest_timestamp(df))

\* create_interactive_dashboard: one table per timestamp of the dataset
InteractiveCall(spot_x, spot_y, timestamp) ==
    /\ timestamp \in unique_times(df)
    /\ TableCall("create_interactive_dashboard", spot_x, spot_y, timestamp)

Next ==
    \/ \E spot_x \in Xs, spot_y \in Ys, plate_number \in Plates, current_timestamp \in Times :
          Query(spot_x, spot_y, plate_number, current_timestamp)
    \/ \E spot_x \in Xs, spot_y \in Ys : DashboardCall(spot_x, spot_y)
    \/ \E spot_x \in Xs, spot_y \in Ys, timestamp \in Times :
          InteractiveCall(spot_x, spot_y, timestamp)

Spec == Init /\ [][Next]_vars

\* ------------------------------------------- histories of one spot, in time order
\* a sheet sorted by current_time with at most one row per timestamp of 1..MaxHistT:
\* at each timestamp the spot (0, 0) holds car A or car B, is empty, or names plate A
\* without a reservation (null or blank), or only the spot (1, 0) is observed (with
\* car A), or nothing is observed at all
HistTimes == 1..MaxHistT

HistCells == {<<<<"R">>, <<"A">>>>, <<<<"R">>, <<"B">>>>, <<NaN, NaN>>,
              <<NaN, <<"A">>>>, <<Blank, <<"A">>>>}

NoRow == <<>>

HistOptions ==
    {<<0, c>> : c \in HistCells} \cup {<<1, <<<<"R">>, <<"A">>>>>>} \cup {NoRow}

HistSheet(f) ==
    LET kept == SelectSeq([t \in HistTimes |-> <<t, f[t]>>], LAMBDA e : e[2] # NoRow)
    IN  [i \in DOMAIN kept |->
            [x |-> kept[i][2][1], y |-> 0, current_time |-> kept[i][1],
             reservation_id |-> kept[i][2][2][1], plate_number |-> kept[i][2][2][2]]]

HistInit ==
    /\ \E f \in [HistTimes -> HistOptions] : df = load_data(HistSheet(f))
    /\ loaded = df
    /\ call = NoCall
    /\ ret = NoRet
    /\ ncalls = 0
    /\ NothingRendered

HistNext ==
    \E spot_x \in Xs, spot_y \in Ys, plate_number \in Plates, current_timestamp \in HistTimes :
        Query(spot_x, spot_y, plate_number, current_timestamp)

HistSpec == HistInit /\ [][HistNext]_vars

\* ------------------------------------------------------- sequences of queries
\* variant: a function that keeps its timestamp filter in the module's df
Requery_filtering_df(spot_x, spot_y, plate_number, current_timestamp) ==
    /\ ncalls < MaxCalls
    /\ call' = [made |-> TRUE, by |-> "direct", x |-> spot_x, y |-> spot_y,
                plate |-> plate_number, ts |-> current_timestamp]
    /\ df' = SelectSeq(df, LAMBDA r : r.current_time <= current_timestamp)
    /\ ret' = calculate_duration(df', spot_x, spot_y, plate_number, current_timestamp)
    /\ ncalls' = ncalls + 1
    /\ UNCHANGED <<loaded, fmt, dash, page>>

\* one more call of calculate_duration, after any earlier ones
Requery(spot_x, spot_y, plate_number, current_timestamp) ==
    /\ ncalls < MaxCalls
    /\ Call("direct", spot_x, spot_y, plate_number, current_timestamp)

\* the queries of a sequence: the spot with the history, a null plate or a car
SeqPlates == {NaN, <<"A">>, <<"B">>}

SeqNext ==
    \E plate_number \in SeqPlates, current_timestamp \in HistTimes :
        Requery(0, 0, plate_number, current_timestamp)

SeqSpec == HistInit /\ [][SeqNext]_vars

\* ------------------------------------------------------ duration formatting
\* strings are sequences of one-character strings, as for the plates
DigitChars == <<"0", "1", "2", "3", "4", "5", "6", "7", "8", "9">>

\* the decimal digits of a natural number
RECURSIVE decimal(_)
decimal(n) ==
    IF n < 10 THEN <<DigitChars[n + 1]>>
    ELSE decimal(n \div 10) \o <<DigitChars[(n % 10) + 1]>>

\* f"{n:02d}" for n >= 0: at least two digits, zero padded
fmt02d(n) == IF n < 10 THEN <<"0">> \o decimal(n) ELSE decimal(n)

\* hours = total_seconds // 3600
hours_of(total_seconds) == total_seconds \div 3600

\* variant: the minutes without the reduction modulo 3600
minutes_of_no_mod(total_seconds) == total_seconds \div 60

\* minutes = (total_seconds % 3600) // 60
minutes_of(total_seconds) == (total_seconds % 3600) \div 60

\* seconds = total_seconds % 60
seconds_of(total_seconds) == total_seconds % 60

\* duration_str = f"{hours:02d}:{minutes:02d}:{seconds:02d}"
duration_str(total_seconds) ==
    fmt02d(hours_of(total_seconds)) \o <<":">> \o fmt02d(minutes_of(total_seconds))
        \o <<":">> \o fmt02d(seconds_of(total_seconds))

\* the formatting block of the table loops, applied to the duration it was handed
Format(total_seconds) ==
    /\ ~fmt.done
    /\ fmt.total_seconds = total_seconds
    /\ fmt' = [done |-> TRUE, total_seconds |-> total_seconds,
               hours |-> hours_of(total_seconds),
               minutes |-> minutes_of(total_seconds),
               seconds |-> seconds_of(total_seconds),
               duration_str |-> duration_str(total_seconds)]
    /\ UNCHANGED <<df, loaded, call, ret, ncalls, dash, page>>

\* no table is loaded: a duration of any number of whole seconds,
\* total_seconds = int(duration.total_seconds()), is about to be formatted
FormatInit ==
    /\ df = <<>>
    /\ loaded = df
    /\ call = NoCall
    /\ ret = NoRet
    /\ ncalls = 0
    /\ \E total_seconds \in 0..MaxSeconds :
          fmt = [done |-> FALSE, total_seconds |-> total_seconds]
    /\ dash = NoDash
    /\ page = NoPage

FormatNext == Format(fmt.total_seconds)

FormatSpec == FormatInit /\ [][FormatNext]_vars

\* ------------------------------------------------------- the dashboards' tables
\* sheets of up to MaxDashRows rows over a 2 x 2 grid of spots and MaxDashT timestamps
DashXs == {0, 1}
DashYs == {0, 1}
DashTimes == 1..MaxDashT

DashCells == {<<<<"R">>, <<"A">>>>, <<<<"R">>, <<"B">>>>, <<NaN, NaN>>}

DashRows ==
    {[x |-> x, y |-> y, current_time |-> t, reservation_id |-> c[1], plate_number |-> c[2]] :
        x \in DashXs, y \in DashYs, t \in DashTimes, c \in DashCells}

DashSheets(n) == [1..n -> DashRows]

\* df[['x', 'y']]
xy(d) == [i \in DOMAIN d |-> [x |-> d[i].x, y |-> d[i].y]]

\* .drop_duplicates(): the first occurrence of every row is kept, in order
RECURSIVE drop_duplicates(_)
drop_duplicates(rows) ==
    IF rows = <<>> THEN <<>>
    ELSE LET front == SubSeq(rows, 1, Len(rows) - 1)
             last == rows[Len(rows)]
         IN  IF \E j \in DOMAIN front : front[j] = last
             THEN drop_duplicates(front)
             ELSE Append(drop_duplicates(front), last)

\* the order of sort_values(['y', 'x']): by y, then by x
yx_before(a, b) == a.y < b.y \/ (a.y = b.y /\ a.x <= b.x)

\* variant: the spots left in their order of first appearance
sort_values_unsorted(rows) == rows

\* .sort_values(['y', 'x']).reset_index(drop=True)
RECURSIVE sort_values(_)
sort_values(rows) ==
    IF rows = <<>> THEN <<>>
    ELSE LET k == CHOOSE k \in DOMAIN rows :
                     /\ \A j \in DOMAIN rows : yx_before(rows[k], rows[j])
                     /\ \A j \in 1..(k - 1) : ~yx_before(rows[j], rows[k])
         IN  <<rows[k]>> \o sort_values(SubSeq(rows, 1, k - 1) \o SubSeq(rows, k + 1, Len(rows)))

\* unique_spots with its column spot_number = range(1, len(unique_spots) + 1)
numbered_spots(d) ==
    LET spots == sort_values(drop_duplicates(xy(d)))
    IN  [i \in DOMAIN spots |-> [x |-> spots[i].x, y |-> spots[i].y, spot_number |-> i]]

\* df[df['current_time'] == timestamp]; the left merge with unique_spots keeps its rows
current_data(d, timestamp) == SelectSeq(d, LAMBDA r : r.current_time = timestamp)

\* current_data[(current_data['x'] == spot_x) & (current_data['y'] == spot_y)]
spot_info_of(d, spot, timestamp) ==
    SelectSeq(current_data(d, timestamp), LAMBDA r : r.x = spot.x /\ r.y = spot.y)

\* the copy of calculate_duration each script calls
duration_by(by, d, spot_x, spot_y, plate_number, timestamp) ==
    CASE by = "create_dashboard" ->
            calculate_duration(d, spot_x, spot_y, plate_number, timestamp).duration
      [] by = "create_interactive_dashboard" ->
            calculate_duration_interactive(d, spot_x, spot_y, plate_number, timestamp)
      [] by = "streamlit_app" ->
            calculate_duration_streamlit(d, spot_x, spot_y, plate_number, timestamp)
      [] by = "test_dashboard_output" ->
            calculate_duration_test(d, spot_x, spot_y, plate_number, timestamp)

\* the '-' of the License Plate and Duration columns of a vacant spot
Hyphen == <<"-">>

\* the body of the table loop of create_dashboard, the Streamlit page and the test
\* script: the entry appended to table_data for one spot
table_entry(by, d, spot, timestamp) ==
    LET spot_info == spot_info_of(d, spot, timestamp) IN
    IF Len(spot_info) > 0 /\ iloc0(spot_info).status = "occupied"
    THEN [spot_number |-> spot.spot_number,
          license_plate |-> iloc0(spot_info).plate_number,
          duration |-> duration_str(duration_by(by, d, spot.x, spot.y,
                                                iloc0(spot_info).plate_number, timestamp)),
          status |-> "Occupied"]
    ELSE [spot_number |-> spot.spot_number, license_plate |-> Hyphen,
          duration |-> Hyphen, status |-> "Vacant"]

\* str(plate_number)
py_str(v) == IF isna(v) THEN <<"n", "a", "n">> ELSE v

\* Python's None
PyNone == <<"None">>

\* the body of the spot loop of create_interactive_dashboard: the entry of spots_data
spots_entry(by, d, spot, timestamp) ==
    LET spot_info == spot_info_of(d, spot, timestamp) IN
    IF Len(spot_info) > 0 /\ iloc0(spot_info).status = "occupied"
    THEN [spot_number |-> spot.spot_number,
          license_plate |-> py_str(iloc0(spot_info).plate_number),
          duration |-> duration_str(duration_by(by, d, spot.x, spot.y,
                                                iloc0(spot_info).plate_number, timestamp)),
          status |-> "occupied"]
    ELSE [spot_number |-> spot.spot_number, license_plate |-> PyNone,
          duration |-> <<"0", "0", ":", "0", "0", ":", "0", "0">>, status |-> "vacant"]

\* table_df.sort_values('Spot #')
RECURSIVE sort_by_spot_number(_)
sort_by_spot_number(rows) ==
    IF rows = <<>> THEN <<>>
    ELSE LET k == CHOOSE k \in DOMAIN rows :
                     /\ \A j \in DOMAIN rows : rows[k].spot_number <= rows[j].spot_number
                     /\ \A j \in 1..(k - 1) : rows[j].spot_number > rows[k].spot_number
         IN  <<rows[k]>>
                \o sort_by_spot_number(SubSeq(rows, 1, k - 1) \o SubSeq(rows, k + 1, Len(rows)))

\* variant: a table built from the rows of current_data, so that a spot without an
\* observation at the timestamp gets no entry
table_data_observed_only(by, d, spots, timestamp) ==
    LET seen == SelectSeq(spots, LAMBDA spot : Len(spot_info_of(d, spot, timestamp)) > 0)
    IN  sort_by_spot_number([i \in DOMAIN seen |-> table_entry(by, d, seen[i], timestamp)])

\* table_data after the loop over unique_spots.iterrows(), as table_df
table_data(by, d, spots, timestamp) ==
    sort_by_spot_number([i \in DOMAIN spots |-> table_entry(by, d, spots[i], timestamp)])

\* spots_data after the loop over unique_spots.iterrows()
spots_data(by, d, spots, timestamp) ==
    [i \in DOMAIN spots |-> spots_entry(by, d, spots[i], timestamp)]

\* len(table_df[table_df['Status'] == value])
count_status(rows, value) == Len(SelectSeq(rows, LAMBDA r : r.status = value))

\* create_dashboard and test_dashboard_output: the table of the latest timestamp and
\* its three summary counts
StaticDashboard(by) ==
    LET spots == numbered_spots(df)
        shown == latest_timestamp(df)
        table == table_data(by, df, spots, shown)
    IN  /\ df # <<>>
        /\ dash' = [built |-> TRUE, by |-> by, unique_spots |-> spots,
                    shown |-> {shown},
                    tables |-> [t \in {shown} |-> table],
                    occupied_count |-> [t \in {shown} |-> count_status(table, "Occupied")],
                    vacant_count |-> [t \in {shown} |-> count_status(table, "Vacant")],
                    total_count |-> [t \in {shown} |-> Len(table)]]
        /\ UNCHANGED <<df, loaded, call, ret, ncalls, fmt, page>>

CreateDashboard ==
    /\ ~dash.built
    /\ StaticDashboard("create_dashboard")

TestDashboardOutput ==
    /\ ~dash.built
    /\ StaticDashboard("test_dashboard_output")

\* the Streamlit page with an empty search box: the table of the latest timestamp
\* (NaT, with no rows, for an empty dataset) and the counts of its metric
StreamlitApp ==
    LET spots == numbered_spots(df)
        shown == IF df = <<>> THEN None ELSE latest_timestamp(df)
        table == table_data("streamlit_app", df, spots, shown)
    IN  /\ ~dash.built
        /\ dash' = [built |-> TRUE, by |-> "streamlit_app", unique_spots |-> spots,
                    shown |-> {shown},
                    tables |-> [t \in {shown} |-> table],
                    occupied_count |-> [t \in {shown} |-> count_status(table, "Occupied")],
                    vacant_count |-> [t \in {shown} |-> Len(table) - count_status(table, "Occupied")],
                    total_count |-> [t \in {shown} |-> Len(table)]]
        /\ UNCHANGED <<df, loaded, call, ret, ncalls, fmt, page>>

\* create_interactive_dashboard: timestamp_data, one spots_data per timestamp, with
\* the counts updateTable shows for it
CreateInteractiveDashboard ==
    LET spots == numbered_spots(df)
        shown == unique_times(df)
        data == [t \in shown |-> spots_data("create_interactive_dashboard", df, spots, t)]
    IN  /\ ~dash.built
        /\ df # <<>>
        /\ dash' = [built |-> TRUE, by |-> "create_interactive_dashboard",
                    unique_spots |-> spots,
                    shown |-> shown,
                    tables |-> data,
                    occupied_count |-> [t \in shown |-> count_status(data[t], "occupied")],
                    vacant_count |-> [t \in shown |->
                                        Len(data[t]) - count_status(data[t], "occupied")],
                    total_count |-> [t \in shown |-> Len(data[t])]]
        /\ UNCHANGED <<df, loaded, call, ret, ncalls, fmt, page>>

DashInit ==
    /\ \E n \in 0..MaxDashRows : \E sheet \in DashSheets(n) : df = load_data(sheet)
    /\ loaded = df
    /\ call = NoCall
    /\ ret = NoRet
    /\ ncalls = 0
    /\ NothingRendered

DashNext ==
    \/ CreateDashboard
    \/ TestDashboardOutput
    \/ StreamlitApp
    \/ CreateInteractiveDashboard

DashSpec == DashInit /\ [][DashNext]_vars

\* ------------------------------------------------- the interactive page and the GIF
\* const FRAME_DURATION = 4000 (milliseconds)
FRAME_DURATION == 4000

\* imageio.mimsave(..., duration=2.0, loop=0): two seconds per frame, in milliseconds
GIF_FRAME_DURATION == 2000

\* sorted(df['current_time'].unique())
RECURSIVE py_sorted(_)
py_sorted(S) ==
    IF S = {} THEN <<>>
    ELSE LET m == CHOOSE a \in S : \A b \in S : a <= b
         IN  <<m>> \o py_sorted(S \ {m})

\* parking_animation.gif as visualize_parking.py writes it: one frame per timestamp,
\* in ascending order, each shown for the same time, looping forever
parking_animation(d) ==
    [frames |-> py_sorted(unique_times(d)), duration |-> GIF_FRAME_DURATION]

\* the frame of a looping GIF on display `elapsed` milliseconds after it started
gif_frame(gif, elapsed) == gif.frames[((elapsed \div gif.duration) % Len(gif.frames)) + 1]

\* the browser loads parking_dashboard.html: the script sets currentTimestampIndex = 0,
\* calls updateTable(sortedTimestamps[0]) and registers the frame timer and then, the
\* <img id="parkingGif"> being in the page, the reset timer; the GIF starts playing
OpenPage ==
    /\ dash.built /\ dash.by = "create_interactive_dashboard"
    /\ ~page.open
    /\ page' = [open |-> TRUE,
                timestampData |-> dash.tables,
                sortedTimestamps |-> py_sorted(unique_times(df)),
                gif |-> parking_animation(df),
                currentTimestampIndex |-> 0,
                shown |-> py_sorted(unique_times(df))[1],
                now |-> 0,
                frame_fired |-> 0,
                reset_fired |-> 0]
    /\ UNCHANGED <<df, loaded, call, ret, ncalls, fmt, dash>>

\* gifLoopDuration = sortedTimestamps.length * FRAME_DURATION
gifLoopDuration == Len(page.sortedTimestamps) * FRAME_DURATION

\* the instants at which the two setInterval timers fire next
FrameDue == (page.frame_fired + 1) * FRAME_DURATION

ResetDue == (page.reset_fired + 1) * gifLoopDuration

\* the callback of setInterval(..., FRAME_DURATION)
FrameTimer ==
    /\ page.open
    /\ FrameDue <= page.now
    /\ LET next == (page.currentTimestampIndex + 1) % Len(page.sortedTimestamps)
       IN  page' = [page EXCEPT !.currentTimestampIndex = next,
                                !.shown = page.sortedTimestamps[next + 1],
                                !.frame_fired = @ + 1]
    /\ UNCHANGED <<df, loaded, call, ret, ncalls, fmt, dash>>

\* the callback of setInterval(..., gifLoopDuration)
ResetTimer ==
    /\ page.open
    /\ ResetDue <= page.now
    /\ page' = [page EXCEPT !.currentTimestampIndex = 0,
                            !.shown = page.sortedTimestamps[1],
                            !.reset_fired = @ + 1]
    /\ UNCHANGED <<df, loaded, call, ret, ncalls, fmt, dash>>

\* no timer callback is pending
TimersIdle == page.now < FrameDue /\ page.now < ResetDue

\* the instant of the GIF's next frame change
GifDue == ((page.now \div page.gif.duration) + 1) * page.gif.duration

\* time passes until the next timer is due or the GIF changes its frame; callbacks
\* that are due run before time passes further, in either order
Tick ==
    /\ page.open
    /\ TimersIdle
    /\ LET next == IF FrameDue <= GifDue THEN FrameDue ELSE GifDue
       IN  /\ next <= MaxLoops * gifLoopDuration
           /\ page' = [page EXCEPT !.now = next]
    /\ UNCHANGED <<df, loaded, call, ret, ncalls, fmt, dash>>

PageNext ==
    \/ CreateInteractiveDashboard
    \/ OpenPage
    \/ Tick
    \/ FrameTimer
    \/ ResetTimer

PageSpec == HistInit /\ [][PageNext]_vars

\* ---------------------------------------------------------------- helpers
Min(S) == CHOOSE a \in S : \A b \in S : a <= b

Max(S) == CHOOSE a \in S : \A b \in S : b <= a

\* the timestamp grid of the dataset
Grid == unique_times(df)

\* the history of the queried spot, in table order, and its timestamps
CallRows == SelectSeq(df, LAMBDA r : r.x = call.x /\ r.y = call.y)

CallTimes == {CallRows[i].current_time : i \in DOMAIN CallRows}

OtherRows == SelectSeq(df, LAMBDA r : ~(r.x = call.x /\ r.y = call.y))

\* the observation the scan reads for the queried spot at t matches the queried occupant
MatchAt(t) ==
    LET rows == SelectSeq(CallRows, LAMBDA r : r.current_time = t)
    IN  rows # <<>> /\ rows[1].status = "occupied"
        /\ rows[1].plate_number # NaN /\ rows[1].plate_number = call.plate

\* the queried spot is observed at the grid timestamps between its first and last, and
\* every observation of it is occupied by the queried occupant
SameOccupantRun ==
    /\ call.made /\ call.plate # NaN
    /\ CallRows # <<>>
    /\ \A i \in DOMAIN CallRows :
          CallRows[i].status = "occupied" /\ CallRows[i].plate_number = call.plate
    /\ \A t \in Grid : Min(CallTimes) < t /\ t < Max(CallTimes) => t \in CallTimes
    /\ call.ts = Max(CallTimes)

EquallySpaced(S, delta) == S = {Min(S) + k * delta : k \in 0..(Cardinality(S) - 1)}

\* ------------------------------------------------------------------ claims
\* C1: a spot whose whole history is N consecutive grid timestamps spaced by delta,
\* all occupied by one occupant, queried at the Nth timestamp, has duration (N-1)*delta.
C1_UniformRun ==
    SameOccupantRun =>
        \A delta \in 1..MaxT :
            EquallySpaced(CallTimes, delta)
                => ret.duration = (Cardinality(CallTimes) - 1) * delta

\* a run of at least two timestamps, with another spot observed before the run starts
C1_Witness ==
    /\ SameOccupantRun
    /\ Cardinality(CallTimes) >= 2
    /\ \E delta \in 1..MaxT : EquallySpaced(CallTimes, delta)
    /\ \E i \in DOMAIN OtherRows : OtherRows[i].current_time < Min(CallTimes)

\* the observation read at t (the first row of the spot at t) does not match, or the
\* spot has no observation at t although t is in the grid
NonMatchingAt(t) == t \in Grid /\ ~MatchAt(t)

\* the grid timestamp immediately after t, not later than the query timestamp
NextAfter(t) == Min({u \in Grid \cup {call.ts} : u > t})

\* C2 as stated: every non-matching observation before the query timestamp caps the
\* duration at as_of - next(T_k), for every snapshot set and every query.
C2_CapEveryQuery ==
    call.made =>
        \A tk \in Grid :
            tk < call.ts /\ NonMatchingAt(tk)
                => ret.duration <= call.ts - NextAfter(tk)

\* C2 amended: the cap holds whenever the spot's observation at some grid timestamp
\* after T_k and not after the query timestamp matches the queried occupant.
C2_CapOnceRunEstablished ==
    call.made =>
        \A tk \in Grid :
            /\ tk < call.ts /\ NonMatchingAt(tk)
            /\ \E t \in Grid : tk < t /\ t <= call.ts /\ MatchAt(t)
            => ret.duration <= call.ts - NextAfter(tk)

\* the occupant is seen before and after a non-matching observation
C2_Witness ==
    /\ call.made
    /\ \E tk \in Grid :
          /\ tk < call.ts /\ NonMatchingAt(tk)
          /\ \E t \in Grid : tk < t /\ t <= call.ts /\ MatchAt(t)
          /\ \E t \in Grid : t < tk /\ MatchAt(t)
    /\ ret.duration = 0

\* absent or blank: missing, empty, or whitespace only
IsAbsentOrBlank(v) == v = NaN \/ \A k \in DOMAIN v : v[k] = " "

\* C3: the duration is zero whenever the occupant identifier passed is absent or blank.
C3_BlankIsZero ==
    call.made /\ IsAbsentOrBlank(call.plate) => ret.duration = 0

\* the grid timestamps the scan may visit, and those at which the observation matches
ScanGrid == {t \in Grid : t <= call.ts}

Matching == {t \in ScanGrid : MatchAt(t)}

\* the earliest timestamp of the maximal run of consecutive grid timestamps that ends
\* at the most recent matching observation
RunStart ==
    Min({s \in Matching :
            \A t \in ScanGrid : s <= t /\ t <= Max(Matching) => t \in Matching})

\* C4: the duration is as_of minus the start of the maximal run of consecutive matching
\* grid timestamps ending at the most recent match, and zero when nothing matches.
C4_DurationIsRun ==
    call.made =>
        ret.duration = IF Matching = {} THEN 0 ELSE call.ts - RunStart

\* a run of at least two timestamps, queried at a later grid timestamp at which the
\* spot no longer matches
C4_Witness ==
    /\ call.made
    /\ Matching # {}
    /\ RunStart < Max(Matching)
    /\ Max(Matching) < call.ts
    /\ ret.duration = call.ts - RunStart

\* C5: a spot with a single occupied observation at T and no other history has
\* duration zero at T, whatever other spots were observed.
C5_SingleObservation ==
    /\ call.made /\ call.plate # NaN
    /\ Len(CallRows) = 1
    /\ CallRows[1].status = "occupied" /\ CallRows[1].plate_number = call.plate
    /\ CallRows[1].current_time = call.ts
    => ret.duration = 0

\* the only observation of the spot, with the same plate seen earlier at another spot
C5_Witness ==
    /\ call.made /\ call.plate # NaN
    /\ Len(CallRows) = 1
    /\ CallRows[1].status = "occupied" /\ CallRows[1].plate_number = call.plate
    /\ CallRows[1].current_time = call.ts
    /\ \E i \in DOMAIN OtherRows :
          /\ OtherRows[i].current_time < call.ts
          /\ OtherRows[i].status = "occupied"
          /\ OtherRows[i].plate_number = call.plate
    /\ ret.duration = 0

\* the reorderings of a table of n rows, and a table reordered
Perms(n) == {p \in [1..n -> 1..n] : \A i, j \in 1..n : p[i] = p[j] => i = j}

Reorder(d, p) == [i \in DOMAIN d |-> d[p[i]]]

IsCallSpot(r) == r.x = call.x /\ r.y = call.y

\* the duration the same query gets on another table
DurationOn(d) == calculate_duration(d, call.x, call.y, call.plate, call.ts).duration

\* the reordering moves rows of other spots only: the history of the queried spot
\* keeps its order
KeepsCallRows(p) == SelectSeq(Reorder(df, p), IsCallSpot) = CallRows

\* C6: reordering the observations of other spots in the table leaves the duration
\* computed for a spot, occupant and timestamp unchanged.
C6_OtherSpotsOrder ==
    call.made =>
        \A p \in Perms(Len(df)) : KeepsCallRows(p) => DurationOn(Reorder(df, p)) = ret.duration

\* a positive duration on a table where rows of another spot can move around the
\* rows of the queried spot
C6_Witness ==
    /\ call.made
    /\ ret.duration > 0
    /\ OtherRows # <<>>
    /\ \E p \in Perms(Len(df)) : KeepsCallRows(p) /\ Reorder(df, p) # df

\* C7: the duration is never negative.
C7_NonNegative == ret.duration >= 0

\* the occupant is also observed at the spot after the query timestamp
C7_Witness ==
    /\ call.made
    /\ ret.first_arrival # None
    /\ \E i \in DOMAIN CallRows :
          /\ CallRows[i].current_time > call.ts
          /\ CallRows[i].status = "occupied"
          /\ CallRows[i].plate_number = call.plate

NoHistoryUpToQuery == \A i \in DOMAIN CallRows : CallRows[i].current_time > call.ts

\* C8: a spot with no observation at or before the query timestamp (none at all, or an
\* empty table) gets duration zero.
C8_NoHistoryIsZero ==
    call.made /\ NoHistoryUpToQuery => ret.duration = 0 /\ ret.first_arrival = None

\* the queried spot is unobserved up to the query while another spot holds the plate
C8_Witness ==
    /\ call.made /\ call.plate # NaN
    /\ NoHistoryUpToQuery
    /\ \E i \in DOMAIN OtherRows :
          /\ OtherRows[i].current_time < call.ts
          /\ OtherRows[i].status = "occupied"
          /\ OtherRows[i].plate_number = call.plate
    /\ ret.duration = 0

\* present and non-blank: not missing and with a character that is not whitespace
PresentNonBlank(v) == v # NaN /\ \E k \in DOMAIN v : v[k] # " "

\* C9 as stated: a row is occupied exactly when the identifier the scan compares with
\* the queried occupant (plate_number) is present and non-blank.
C9_StatusFromComparedId ==
    \A i \in DOMAIN df :
        df[i].status = "occupied" <=> PresentNonBlank(df[i].plate_number)

\* the row the scan read for the queried spot at timestamp t
ObservationAt(t) == SelectSeq(CallRows, LAMBDA r : r.current_time = t)[1]

\* C9 amended: a row is occupied exactly when its reservation_id is present and
\* non-blank, and vacant otherwise; the scan compares another column, plate_number,
\* with the queried occupant, so the run starts at a row whose reservation_id is
\* present and non-blank and whose plate_number is the queried one.
C9_StatusFromReservation ==
    /\ \A i \in DOMAIN df :
          /\ df[i].status = "occupied" <=> PresentNonBlank(df[i].reservation_id)
          /\ df[i].status = "vacant" <=> ~PresentNonBlank(df[i].reservation_id)
    /\ call.made /\ ret.first_arrival # None =>
          /\ PresentNonBlank(ObservationAt(ret.first_arrival).reservation_id)
          /\ ObservationAt(ret.first_arrival).plate_number = call.plate

\* a run that stops at a row naming the queried plate under a blank reservation_id
C9_Witness ==
    /\ call.made
    /\ ret.first_arrival # None
    /\ \E i \in DOMAIN CallRows :
          /\ CallRows[i].current_time < ret.first_arrival
          /\ CallRows[i].reservation_id = Blank
          /\ CallRows[i].plate_number = call.plate

\* C10 as stated: with duplicate rows or without, every reordering of the rows of the
\* table leaves the result of the query unchanged.
C10_AnyRowOrder ==
    call.made =>
        \A p \in Perms(Len(df)) : DurationOn(Reorder(df, p)) = ret.duration

\* the first row of the queried spot at each timestamp is the same row after reordering
KeepsFirstRows(p) ==
    \A t \in CallTimes :
        spot_at_time(Reorder(df, p), call.x, call.y, t)[1]
            = spot_at_time(df, call.x, call.y, t)[1]

\* C10 amended: duplicate rows are tolerated, the first row in table order of a
\* (spot, timestamp) pair being the one that counts: every reordering that keeps the
\* first row of the queried spot at each timestamp leaves the result unchanged.
C10_FirstRowDecides ==
    call.made =>
        \A p \in Perms(Len(df)) :
            KeepsFirstRows(p) => DurationOn(Reorder(df, p)) = ret.duration

\* two different rows for one (spot, timestamp) pair, the first of them counted in a
\* positive duration, and a reordering that keeps it first
C10_Witness ==
    /\ call.made
    /\ ret.duration > 0
    /\ \E i, j \in DOMAIN CallRows :
          /\ i < j
          /\ CallRows[i].current_time = CallRows[j].current_time
          /\ CallRows[i].current_time <= call.ts
          /\ CallRows[i].plate_number = call.plate
          /\ CallRows[j].plate_number # call.plate
    /\ \E p \in Perms(Len(df)) : KeepsFirstRows(p) /\ Reorder(df, p) # df

\* ------------------------------------------------- claims on the scan order
\* the part of a table not later than the query timestamp
Past(d) == SelectSeq(d, LAMBDA r : r.current_time <= call.ts)

\* a table without its i-th row
Without(d, i) == [k \in 1..(Len(d) - 1) |-> IF k < i THEN d[k] ELSE d[k + 1]]

\* an occupied row of the queried spot and plate at timestamp t, as load_data returns it
OccupantRowAt(t) ==
    load_data(<<[x |-> call.x, y |-> call.y, current_time |-> t,
                 reservation_id |-> <<"R">>, plate_number |-> call.plate]>>)[1]

\* C14: only timestamps <= as_of are scanned: removing every observation later than
\* as_of, removing one of them, or adding one (even of the queried spot and occupant,
\* before or after the other rows) leaves the result unchanged.
C14_LaterRowsIgnored ==
    call.made =>
        /\ DurationOn(Past(df)) = ret.duration
        /\ \A i \in DOMAIN df :
              df[i].current_time > call.ts => DurationOn(Without(df, i)) = ret.duration
        /\ \A t \in Times :
              t > call.ts =>
                 /\ DurationOn(Append(df, OccupantRowAt(t))) = ret.duration
                 /\ DurationOn(<<OccupantRowAt(t)>> \o df) = ret.duration

\* a positive duration although the occupant is still observed at the spot later on
C14_Witness ==
    /\ call.made
    /\ ret.duration > 0
    /\ \E i \in DOMAIN CallRows :
          /\ CallRows[i].current_time > call.ts
          /\ CallRows[i].status = "occupied"
          /\ CallRows[i].plate_number = call.plate

\* ------------------------------------------------------ claims on the callers
\* the call was made by the table loop of a dashboard
IsTableCall == call.made /\ call.by # "direct"

\* the rows of the queried spot at the query timestamp, in table order
RowsAtQuery == SelectSeq(CallRows, LAMBDA r : r.current_time = call.ts)

\* C17: a dashboard calls calculate_duration only for a spot whose row at as_of is
\* occupied, with the plate of that row (create_dashboard: as_of is the latest
\* timestamp); for a plate that is not missing the run is then established at as_of
\* and the duration is as_of minus the start of the run that contains as_of.
C17_CallersMeetPrecondition ==
    IsTableCall =>
        /\ RowsAtQuery # <<>>
        /\ RowsAtQuery[1].status = "occupied"
        /\ RowsAtQuery[1].plate_number = call.plate
        /\ call.by = "create_dashboard" => call.ts = Max(Grid)
        /\ call.plate # NaN =>
              /\ Max(Matching) = call.ts
              /\ ret.first_arrival = RunStart
              /\ ret.duration = call.ts - RunStart

\* a dashboard call that displays a positive duration
C17_Witness ==
    /\ IsTableCall
    /\ call.plate # NaN
    /\ ret.duration > 0

\* ------------------------------------------------------- claims on the copies
\* C18: the copies of calculate_duration in create_dashboard.py (the one called),
\* create_interactive_dashboard.py, streamlit_app.py and test_dashboard_output.py
\* return the same duration for every table, spot, occupant and timestamp.
C18_CopiesAgree ==
    call.made =>
        /\ calculate_duration_interactive(df, call.x, call.y, call.plate, call.ts)
              = ret.duration
        /\ calculate_duration_streamlit(df, call.x, call.y, call.plate, call.ts)
              = ret.duration
        /\ calculate_duration_test(df, call.x, call.y, call.plate, call.ts)
              = ret.duration

\* a query whose run starts at as_of, below an observation that does not match and an
\* older one that does
C18_Witness ==
    /\ call.made
    /\ ret.first_arrival = call.ts
    /\ \E t \in Matching : t < call.ts
    /\ calculate_duration_test(df, call.x, call.y, call.plate, call.ts) = 0

CallTimeline ==
    LET desc == sorted_desc(CallTimes)
    IN  [k \in DOMAIN desc |-> desc[Len(desc) + 1 - k]]

\* no grid timestamp from a to b lacks an observation of the queried spot
ObservedThroughout(a, b) == \A t \in Grid : a <= t /\ t <= b => t \in CallTimes

\* t1 < t2 < t3 < t4 at the spot, vacant at t1, the queried occupant at t2, t3, t4
FourStepHistory ==
    /\ call.made
    /\ Cardinality(CallTimes) = 4
    /\ ObservationAt(CallTimeline[1]).status = "vacant"
    /\ \A k \in 2..4 : MatchAt(CallTimeline[k])
    /\ ObservedThroughout(CallTimeline[1], CallTimeline[4])
    /\ call.ts = CallTimeline[4]

\* C12: with t1 < t2 < t3 < t4 at one spot, the spot vacant at t1 and the occupant
\* present at t2, t3 and t4, the query for that occupant at t4 returns t4 - t2.
C12_VacantThenRun ==
    FourStepHistory => ret.duration = CallTimeline[4] - CallTimeline[2]

\* the scenario, with timestamps that are not equally spaced
C12_Witness ==
    /\ FourStepHistory
    /\ CallTimeline[3] - CallTimeline[2] # CallTimeline[4] - CallTimeline[3]
    /\ ret.duration = CallTimeline[4] - CallTimeline[2]

\* the observation at t is occupied by an occupant other than the queried one
OtherOccupantAt(t) ==
    /\ t \in CallTimes
    /\ ObservationAt(t).status = "occupied"
    /\ ObservationAt(t).plate_number # NaN
    /\ ObservationAt(t).plate_number # call.plate

\* t1 < t2 < t3 at the spot: the queried occupant at t1 and t3, another one at t2
InterruptedHistory ==
    /\ call.made
    /\ Cardinality(CallTimes) = 3
    /\ MatchAt(CallTimeline[1])
    /\ OtherOccupantAt(CallTimeline[2])
    /\ MatchAt(CallTimeline[3])
    /\ ObservedThroughout(CallTimeline[1], CallTimeline[3])
    /\ call.ts = CallTimeline[3]

\* C13: with one occupant at t1 and t3 and a different occupant at t2 at the same
\* spot, the query for the first occupant at t3 returns zero; the run restarts at t3.
C13_OtherOccupantBreaks ==
    InterruptedHistory => ret.duration = 0 /\ ret.first_arrival = CallTimeline[3]

C13_Witness ==
    /\ InterruptedHistory
    /\ ret.duration = 0
    /\ ret.iterations = 2

\* the grid timestamps the scan meets before its first matching observation
Skipped == {t \in ScanGrid : \A u \in Matching : u < t}

\* C15: when the queried occupant does not occupy the spot at the query timestamp
\* (no observation, vacant, or another occupant) but matches earlier, the scan passes
\* every timestamp down to the most recent match and the duration is the query
\* timestamp minus the start of that earlier run, a positive value.
C15_SkipsUntilRun ==
    call.made /\ ~MatchAt(call.ts) /\ Matching # {} =>
        /\ ret.first_arrival = RunStart
        /\ ret.duration = call.ts - RunStart
        /\ ret.duration > 0
        /\ ret.iterations > Cardinality(Skipped)

\* a missing, a vacant and a differently occupied timestamp are skipped before the run
C15_Witness ==
    /\ call.made /\ ~MatchAt(call.ts) /\ Matching # {}
    /\ \E t \in Skipped : t \notin CallTimes
    /\ \E t \in Skipped : t \in CallTimes /\ ObservationAt(t).status = "vacant"
    /\ \E t \in Skipped : OtherOccupantAt(t)
    /\ ret.duration = call.ts - RunStart

\* the timestamps the scan visits: all of ScanGrid when nothing matches, else those
\* from the query timestamp down to the first one below the run, if there is one
Visited ==
    IF Matching = {} THEN ScanGrid
    ELSE LET below == {t \in ScanGrid : t < RunStart}
         IN  {t \in ScanGrid : t >= RunStart} \cup (IF below = {} THEN {} ELSE {Max(below)})

\* C16: the scan performs at most one iteration per distinct timestamp not after the
\* query timestamp, hence at most T iterations, and it stops at the first non-matching
\* or missing observation met after a run was established.
C16_ScanTerminates ==
    call.made =>
        /\ ret.iterations <= Cardinality(ScanGrid)
        /\ Cardinality(ScanGrid) <= Cardinality(Grid)
        /\ ret.iterations = IF call.plate = NaN THEN 0 ELSE Cardinality(Visited)

\* the scan stops early: timestamps older than the end of the run are never visited
C16_Witness ==
    /\ call.made
    /\ Matching # {}
    /\ RunStart < Max(Matching)
    /\ Cardinality({t \in ScanGrid : t < RunStart}) >= 2
    /\ ret.iterations = Cardinality(Visited)
    /\ ret.iterations < Cardinality(ScanGrid)

\* calculate_duration for the queried spot and occupant at another timestamp
DurationAt(t) == calculate_duration(df, call.x, call.y, call.plate, t).duration

\* the grid timestamp immediately before the query timestamp
Previous == Max({t \in Grid : t < call.ts})

HasPrevious == call.made /\ MatchAt(call.ts) /\ \E t \in Grid : t < call.ts

\* C19: for consecutive grid timestamps t < t' with the occupant observed at t', the
\* duration at t' is the duration at t plus t' - t when the occupant is observed at t
\* too, and zero when the observation at t is missing, vacant or another occupant's.
C19_GrowsAlongRun ==
    HasPrevious =>
        ret.duration = IF MatchAt(Previous)
                       THEN DurationAt(Previous) + (call.ts - Previous)
                       ELSE 0

\* the third timestamp of a run, and a run that restarts after a missing observation
C19_Witness ==
    /\ HasPrevious
    /\ \/ MatchAt(Previous) /\ DurationAt(Previous) > 0
                            /\ ret.duration = DurationAt(Previous) + (call.ts - Previous)
       \/ Previous \notin CallTimes /\ (\E t \in Matching : t < Previous)
                                    /\ ret.duration = 0

\* the observation at t names the queried plate but has a null or blank reservation_id
PlateWithoutReservation(t) ==
    /\ t \in CallTimes
    /\ py_eq(ObservationAt(t).plate_number, call.plate)
    /\ IsAbsentOrBlank(ObservationAt(t).reservation_id)

\* C20: status is occupied exactly for rows with a non-blank reservation_id; the run
\* ends only on observations that are occupied and carry the queried plate; and an
\* observation with the queried plate but a null or blank reservation_id never starts
\* or extends the run and bounds every run established after it.
C20_NeedsStatusAndPlate ==
    /\ \A i \in DOMAIN df :
          df[i].status = "occupied" <=> PresentNonBlank(df[i].reservation_id)
    /\ call.made =>
          /\ ret.first_arrival # None => MatchAt(ret.first_arrival)
          /\ \A t \in ScanGrid :
                PlateWithoutReservation(t) =>
                    /\ ret.first_arrival # t
                    /\ (\E u \in Matching : u > t) => ret.first_arrival > t

\* the plate is seen without a reservation, null and blank, right before a run of it
C20_Witness ==
    /\ call.made
    /\ ret.first_arrival # None
    /\ \E t \in ScanGrid :
          /\ PlateWithoutReservation(t) /\ ObservationAt(t).reservation_id = NaN
          /\ t < call.ts
          /\ NextAfter(t) = ret.first_arrival
    /\ \E t \in ScanGrid :
          /\ PlateWithoutReservation(t) /\ ObservationAt(t).reservation_id = Blank
          /\ t < ret.first_arrival

\* ------------------------------------------------------ claims on the formatting
\* the number a string of decimal digits denotes
RECURSIVE number(_)
number(digits) ==
    IF digits = <<>> THEN 0
    ELSE 10 * number(SubSeq(digits, 1, Len(digits) - 1))
            + (CHOOSE k \in 0..9 : DigitChars[k + 1] = digits[Len(digits)])

\* the positions of the colons of a string
Colons(str) == {k \in DOMAIN str : str[k] = ":"}

\* the seconds a displayed HH:MM:SS string is read as
Displayed(str) ==
    LET c1 == Min(Colons(str))
        c2 == Max(Colons(str))
    IN  number(SubSeq(str, 1, c1 - 1)) * 3600
            + number(SubSeq(str, c1 + 1, c2 - 1)) * 60
            + number(SubSeq(str, c2 + 1, Len(str)))

\* C22: formatting s >= 0 whole seconds gives hours = s div 3600, minutes and seconds
\* in 0..59 with hours * 3600 + minutes * 60 + seconds = s, and the displayed string,
\* two colons between three fields of at least two digits, reads back as s.
C22_FormatDeterminesSeconds ==
    fmt.done =>
        /\ fmt.hours = fmt.total_seconds \div 3600
        /\ fmt.minutes \in 0..59
        /\ fmt.seconds \in 0..59
        /\ fmt.hours * 3600 + fmt.minutes * 60 + fmt.seconds = fmt.total_seconds
        /\ Cardinality(Colons(fmt.duration_str)) = 2
        /\ Displayed(fmt.duration_str) = fmt.total_seconds

\* a duration of more than 99 hours: the hours field has three digits
C22_Witness ==
    /\ fmt.done
    /\ fmt.hours > 99
    /\ fmt.minutes > 0
    /\ fmt.seconds > 0
    /\ Len(fmt.duration_str) = 9
    /\ Displayed(fmt.duration_str) = fmt.total_seconds

\* ------------------------------------------------------ claims on the status tables
\* the entry of the table shown for timestamp t that carries spot number i
Listed(t, i) == SelectSeq(dash.tables[t], LAMBDA r : r.spot_number = i)

IsListedOccupied(r) == r.status \in {"Occupied", "occupied"}

IsListedVacant(r) ==
    /\ r.status \in {"Vacant", "vacant"}
    /\ r.license_plate \in {Hyphen, PyNone}

\* the rows of the dataset for a spot at a timestamp, in table order
Observations(spot, t) ==
    SelectSeq(df, LAMBDA r : r.x = spot.x /\ r.y = spot.y /\ r.current_time = t)

\* the entry lists the spot as occupied by the occupant of row r, with the duration
\* calculate_duration gives for that occupant at t
ListsOccupant(entry, spot, r, t) ==
    /\ IsListedOccupied(entry)
    /\ entry.license_plate \in {r.plate_number, py_str(r.plate_number)}
    /\ entry.duration =
          duration_str(calculate_duration(df, spot.x, spot.y, r.plate_number, t).duration)

\* one entry per unique spot of the whole dataset, and counts that add up
OneEntryPerSpot(t) ==
    /\ Len(dash.unique_spots) = Cardinality(unique_spots(df))
    /\ Len(dash.tables[t]) = Cardinality(unique_spots(df))
    /\ \A i \in DOMAIN dash.unique_spots :
          /\ <<dash.unique_spots[i].x, dash.unique_spots[i].y>> \in unique_spots(df)
          /\ Len(Listed(t, i)) = 1
    /\ dash.occupied_count[t] = Len(SelectSeq(dash.tables[t], IsListedOccupied))
    /\ dash.vacant_count[t] = Len(SelectSeq(dash.tables[t], IsListedVacant))
    /\ dash.occupied_count[t] + dash.vacant_count[t] = dash.total_count[t]
    /\ dash.total_count[t] = Cardinality(unique_spots(df))

\* C21 as stated: one entry per unique spot; a spot with an occupied observation at the
\* displayed timestamp is listed Occupied with its plate and duration, and a spot that
\* is vacant or unobserved at that timestamp is listed Vacant; the counts add up.
C21_OccupiedObservationListed ==
    dash.built =>
        \A t \in dash.shown :
            /\ OneEntryPerSpot(t)
            /\ \A i \in DOMAIN dash.unique_spots :
                  LET spot == dash.unique_spots[i]
                      obs == Observations(spot, t)
                  IN  IF \E k \in DOMAIN obs : obs[k].status = "occupied"
                      THEN \E k \in DOMAIN obs :
                              /\ obs[k].status = "occupied"
                              /\ ListsOccupant(Listed(t, i)[1], spot, obs[k], t)
                      ELSE IsListedVacant(Listed(t, i)[1])

\* C21 amended: the first row of the spot at the displayed timestamp decides: the spot
\* is listed Occupied, with that row's plate and duration, when that row is occupied,
\* and Vacant when that row is vacant or the spot has no row at that timestamp.
C21_FirstObservationListed ==
    dash.built =>
        \A t \in dash.shown :
            /\ OneEntryPerSpot(t)
            /\ \A i \in DOMAIN dash.unique_spots :
                  LET spot == dash.unique_spots[i]
                      obs == Observations(spot, t)
                  IN  IF obs # <<>> /\ obs[1].status = "occupied"
                      THEN ListsOccupant(Listed(t, i)[1], spot, obs[1], t)
                      ELSE IsListedVacant(Listed(t, i)[1])

\* a spot whose first row at the displayed timestamp is vacant and whose second is
\* occupied is listed Vacant, next to a spot with no row at that timestamp
C21_Witness ==
    /\ dash.built
    /\ \E t \in dash.shown : \E i, j \in DOMAIN dash.unique_spots :
          /\ Len(Observations(dash.unique_spots[i], t)) = 2
          /\ Observations(dash.unique_spots[i], t)[1].status = "vacant"
          /\ Observations(dash.unique_spots[i], t)[2].status = "occupied"
          /\ IsListedVacant(Listed(t, i)[1])
          /\ Observations(dash.unique_spots[j], t) = <<>>
          /\ IsListedVacant(Listed(t, j)[1])
          /\ dash.total_count[t] = 2

\* ------------------------------------------------------ claims on the spot numbers
\* the spot numbered i
SpotOf(i) == <<dash.unique_spots[i].x, dash.unique_spots[i].y>>

\* C25: the spot numbers 1..N are assigned to the distinct (x, y) pairs of the whole
\* dataset in the order of y, then x; the numbering is a bijection between the unique
\* spots and 1..N, every table rendered lists the numbers 1..N in that order for the
\* same spots, and reordering the rows of the input leaves the numbering unchanged.
C25_SpotNumbering ==
    dash.built =>
        LET N == Cardinality(unique_spots(df)) IN
        /\ DOMAIN dash.unique_spots = 1..N
        /\ {SpotOf(i) : i \in 1..N} = unique_spots(df)
        /\ \A i \in 1..N : dash.unique_spots[i].spot_number = i
        /\ \A i, j \in 1..N :
              i < j => \/ SpotOf(i)[2] < SpotOf(j)[2]
                       \/ SpotOf(i)[2] = SpotOf(j)[2] /\ SpotOf(i)[1] < SpotOf(j)[1]
        /\ \A t \in dash.shown :
              /\ DOMAIN dash.tables[t] = 1..N
              /\ \A i \in 1..N :
                    /\ dash.tables[t][i].spot_number = i
                    /\ IsListedOccupied(dash.tables[t][i]) =>
                          Observations(dash.unique_spots[i], t) # <<>>
        /\ \A p \in Perms(Len(df)) : numbered_spots(Reorder(df, p)) = dash.unique_spots

\* three spots that appear in the input in another order than their numbers, numbered
\* by y before x, in the tables of two timestamps
C25_Witness ==
    /\ dash.built
    /\ Cardinality(dash.shown) = 2
    /\ Len(dash.unique_spots) = 3
    /\ drop_duplicates(xy(df)) # [i \in 1..3 |-> [x |-> SpotOf(i)[1], y |-> SpotOf(i)[2]]]
    /\ \E i, j \in 1..3 : i < j /\ SpotOf(i)[1] > SpotOf(j)[1]
    /\ \E t \in dash.shown : \E i \in 1..3 : IsListedOccupied(dash.tables[t][i])

\* ------------------------------------------------------ claims on the page's timers
\* C23: the table of the interactive page advances at the rate of the GIF's frames, so
\* whenever no callback is pending the timestamp the table shows is the timestamp of
\* the GIF frame on display.
C23_TableShowsGifFrame ==
    page.open =>
        /\ FRAME_DURATION = page.gif.duration
        /\ TimersIdle => page.shown = gif_frame(page.gif, page.now)

\* C24: currentTimestampIndex stays within 0..len(sortedTimestamps)-1 and, once the
\* callbacks due at an instant have run, in whichever order, it equals the number of
\* frame timer firings modulo len(sortedTimestamps).
C24_IndexIsFiringsModN ==
    page.open =>
        /\ page.currentTimestampIndex \in 0..(Len(page.sortedTimestamps) - 1)
        /\ TimersIdle =>
              page.currentTimestampIndex = page.frame_fired % Len(page.sortedTimestamps)

====
